---- MODULE Spec2Model ----
(***************************************************************************)
(* AMZ-Automation (src/main.py): one scheduled run of the batch job that   *)
(* creates the company folders and then generates NDA, Proposal, SOW and   *)
(* MSA documents from templates, gated by status fields kept in the CRM.   *)
(*                                                                         *)
(* Text is modelled as a sequence of one-character strings so that strip() *)
(* and lower() are computed; a file name is the sequence of the pieces its *)
(* f-string concatenates; Python's None is the sentinel  None.             *)
(***************************************************************************)
EXTENDS Integers, Sequences, FiniteSets, TLC

\* ------------------------------------------------------------------ bounds
\* number of scheduled executions of the whole script that are explored
MaxRuns == 2
\* number of remote calls that may answer with a failure over the runs
MaxFaults == 1
\* number of pages a CRM listing may take
MaxPages == 2

\* ------------------------------------------------------------ python text
None == <<"<None>">>

UpperCase == <<"A","B","C","D","E","F","G","H","I","J","K","L","M",
               "N","O","P","Q","R","S","T","U","V","W","X","Y","Z">>
LowerCase == <<"a","b","c","d","e","f","g","h","i","j","k","l","m",
               "n","o","p","q","r","s","t","u","v","w","x","y","z">>
Whitespace == {" ", "\t", "\n"}

\* the letter of the other case, for each letter that has one
ToLower == [c \in {UpperCase[i] : i \in DOMAIN UpperCase} |->
              LowerCase[CHOOSE i \in DOMAIN UpperCase : UpperCase[i] = c]]
ToUpper == [c \in {LowerCase[i] : i \in DOMAIN LowerCase} |->
              UpperCase[CHOOSE i \in DOMAIN LowerCase : LowerCase[i] = c]]

LowerChar(c) == IF c \in DOMAIN ToLower THEN ToLower[c] ELSE c

UpperChar(c) == IF c \in DOMAIN ToUpper THEN ToUpper[c] ELSE c

\* str.lower()
Lower(s) == [i \in DOMAIN s |-> LowerChar(s[i])]

RECURSIVE LStrip(_)
LStrip(s) == IF s # <<>> /\ Head(s) \in Whitespace THEN LStrip(Tail(s)) ELSE s

RECURSIVE RStrip(_)
RStrip(s) ==
  IF s # <<>> /\ s[Len(s)] \in Whitespace THEN RStrip(SubSeq(s, 1, Len(s) - 1)) ELSE s

\* str.strip()
Strip(s) == RStrip(LStrip(s))

\* str.title(): first letter of every word upper, the others lower
Title(s) ==
  [i \in DOMAIN s |->
     IF i = 1 \/ LowerChar(s[i - 1]) \notin DOMAIN ToUpper
     THEN UpperChar(s[i]) ELSE LowerChar(s[i])]

\* str.startswith(prefix)
StartsWith(s, prefix) ==
  Len(prefix) <= Len(s) /\ SubSeq(s, 1, Len(prefix)) = prefix

\* (x or "")
OrEmpty(v) == IF v = None THEN <<>> ELSE v

\* the tags the flows compare against and write
S_generate  == <<"g","e","n","e","r","a","t","e">>
S_generated == <<"g","e","n","e","r","a","t","e","d">>
S_Generated == <<"G","e","n","e","r","a","t","e","d">>
S_candidate == <<"c","a","n","d","i","d","a","t","e">>
S_vendor    == <<"v","e","n","d","o","r">>
S_partner   == <<"p","a","r","t","n","e","r">>

\* ------------------------------------------------------- sanitize (456-473)
IllegalChars == {"\\", "/", ":", "*", "?", "\"", "<", ">", "|", "#", "{", "}",
                 "%", "~", "&", ","}

\* re.sub(r'[\\/:*?"<>|#{}%~&,]', '', name)
RemoveIllegal(s) == SelectSeq(s, LAMBDA c : c \notin IllegalChars)

\* re.sub(r'\s+', ' ', s): every run of whitespace becomes one space
RECURSIVE CollapseWs(_)
CollapseWs(s) ==
  IF s = <<>> THEN <<>>
  ELSE IF Head(s) \in Whitespace
       THEN <<" ">> \o CollapseWs(LStrip(Tail(s)))
       ELSE <<Head(s)>> \o CollapseWs(Tail(s))

\* str.rstrip('.')
RECURSIVE RStripDot(_)
RStripDot(s) ==
  IF s # <<>> /\ s[Len(s)] = "." THEN RStripDot(SubSeq(s, 1, Len(s) - 1)) ELSE s

sanitize_folder_name(name) == RStripDot(Strip(CollapseWs(RemoveIllegal(name))))

\* ------------------------------------------------------------- the records
Docs == {"nda", "proposal", "sow", "msa"}

\* companies and deals in the order the CRM returns them
CompanyList == <<"A", "B">>
DealList    == <<"d1", "d2">>
Companies   == {CompanyList[i] : i \in DOMAIN CompanyList}
Deals       == {DealList[i] : i \in DOMAIN DealList}

\* datetime.now().strftime('%Y%m%d'): the runs explored happen on one day
Today == "20250102"

\* service line names and the template dictionaries (810-816, 975-981)
SL_Risk       == <<"Risk Assessment">>
SL_Training   == <<"Training">>
SL_Recruiting == <<"Recruiting">>
SL_Consulting == <<"Consulting Services">>
SL_Threat     == <<"Global Threat Intelligence">>
SL_Other      == <<"Executive Protection">>
TemplateLines == {SL_Risk, SL_Training, SL_Recruiting, SL_Consulting, SL_Threat}

PROPOSAL_TEMPLATES(line) ==
  IF line \in TemplateLines THEN <<"PROPOSAL_TEMPLATE">> \o line
  ELSE <<"PROPOSAL_TEMPLATE">> \o SL_Risk

\* dict.get(service_line): None when the key is missing
SOW_TEMPLATES(line) ==
  IF line \in TemplateLines THEN <<"SOW_TEMPLATE">> \o line ELSE None

VARIABLES
  company,         \* CRM: company id -> properties
  contact,         \* CRM: company id -> its first associated contact
  deal,            \* CRM: deal id -> properties and associated company
  folders,         \* storage: the folders that exist
  files,           \* storage: the files that are listed
  pending,         \* storage: copies accepted and not yet completed
  client_folders,  \* company name -> allow_subfolders (514-523)
  stage,           \* the section of the script that is executing
  idx,             \* position of the section's loop in its list
  pc,              \* position inside the flow that is executing
  fl,              \* locals of the flow that is executing
  runs,            \* executions of the script started so far
  faults,          \* remote calls that have answered with a failure
  made             \* per document: copy requests, uploads, patch rounds, flow calls

vars == <<company, contact, deal, folders, files, pending, client_folders,
          stage, idx, pc, fl, runs, faults, made>>

crm     == <<company, contact, deal>>
storage == <<folders, files, pending>>

Folder(root, name, sub) == [root |-> root, name |-> name, sub |-> sub]
NoFolder == Folder("", <<>>, <<>>)

CLIENTS_FOLDER_ID          == "clients"
VENDORS_PARTNERS_FOLDER_ID == "vendors"

\* the names listed by  GET .../items/{folder}/children
Children(dir) == {f.name : f \in {g \in files : g.dir = dir}}

\* --------------------------------------------------------------- file names
ContactName(ct) == Strip(ct.firstname) \o <<"_">> \o Strip(ct.lastname)

\* 665
NdaFilename(contact_type, ct) ==
  <<"AMZ Risk - ">> \o Title(contact_type) \o <<" NDA - ">> \o ContactName(ct)
    \o <<" - ", Today, ".docx">>

\* 805 and 877-880
ProposalPrefix(company_name, line) ==
  <<"AMZ Risk - ">> \o company_name \o <<" - Proposal - ">> \o line
ProposalFilename(company_name, line) ==
  ProposalPrefix(company_name, line) \o <<" - ", Today, ".docx">>

\* 1055-1058
SowFilename(company_name, line) ==
  <<"AMZ Risk - ">> \o company_name \o <<" - SOW - ">> \o line
    \o <<" - ", Today, ".docx">>

\* 1249-1251
MsaPrefix(company_name) == <<"AMZ Risk - MSA - ">> \o company_name
MsaFilename(company_name) == MsaPrefix(company_name) \o <<" - ", Today, ".docx">>

\* ------------------------------------------------------------ service lines
\* str.split(';'): the pieces between the separators
RECURSIVE SplitSemi(_, _)
SplitSemi(s, cur) ==
  IF s = <<>> THEN <<cur>>
  ELSE IF Head(s) = ";" THEN <<cur>> \o SplitSemi(Tail(s), <<>>)
       ELSE SplitSemi(Tail(s), Append(cur, Head(s)))

StripAll(ss) == [i \in DOMAIN ss |-> Strip(ss[i])]

\* 841-848 and 1002-1009.  raw.kind is "list" (option records), "str" (a
\* delimited string) or "none" (null); a list item is the option's value
ServiceLines(raw) ==
  LET got == IF raw.kind = "list"
             THEN SelectSeq(raw.list, LAMBDA v : v # None /\ v # <<>>)
             ELSE IF raw.kind = "str" /\ raw.str # <<>>
             THEN SelectSeq(StripAll(SplitSemi(raw.str, <<>>)), LAMBDA v : v # <<>>)
             ELSE <<>>
  IN IF got = <<>> THEN <<SL_Risk>> ELSE got

RawList(l)  == [kind |-> "list", list |-> l, str |-> <<>>]
RawStr(t)   == [kind |-> "str",  list |-> <<>>, str |-> t]
RawNone     == [kind |-> "none", list |-> <<>>, str |-> <<>>]

\* ------------------------------------------------------------------- inputs
S_GENERATE_sp == <<" ","G","E","N","E","R","A","T","E">>
S_Candidate_sp == <<" ","C","a","n","d","i","d","a","t","e">>
T_prospect == <<"P","R","O","S","P","E","C","T">>
T_vendor   == <<"V","E","N","D","O","R">>

\* values a status field may hold when a run starts
StatusInputs == {None, S_generate, S_GENERATE_sp, S_Generated}

CompanyName(c) == IF c = "A" THEN <<"A","c","m","e">> ELSE <<"B","o","l","t">>

\* a company name with an illegal character, a run of blanks once that
\* character is gone, and a trailing period
DirtyName == <<"A","c","m","e"," ","&"," ","C","o",".">>

Person(c, found, nda, msa) ==
  [found |-> found,
   firstname |-> IF c = "A" THEN <<"J","a","n","e">> ELSE <<"R","a","j">>,
   lastname  |-> IF c = "A" THEN <<"D","o","e">> ELSE <<"R","a","o">>,
   contact_type |-> IF c = "A" THEN S_Candidate_sp ELSE None,
   nda_status |-> nda, msa_status |-> msa]

IsVendorType(ctype) == Lower(Strip(ctype)) \in {S_vendor, S_partner}

SowFolder(name) == Folder(CLIENTS_FOLDER_ID, name, <<"04. SOWs">>)

\* SOW files of today that a previous run has left for the deal
RECURSIVE SowFilesOf(_, _)
SowFilesOf(name, lines) ==
  IF lines = <<>> THEN {}
  ELSE {[dir |-> SowFolder(name), name |-> SowFilename(name, Head(lines)),
         body |-> "filled"]} \cup SowFilesOf(name, Tail(lines))

\* the day of an earlier run, as strftime('%Y%m%d') wrote it into a name
Earlier == "20241231"

\* what a run of an earlier day has left for a client company: its folder,
\* the subfolder of the document type and the document, named for that day
EarlierFolders(doc, name) ==
  {Folder(CLIENTS_FOLDER_ID, name, <<>>),
   Folder(CLIENTS_FOLDER_ID, name,
          IF doc = "proposal" THEN <<"02. Proposals">>
          ELSE IF doc = "sow" THEN <<"04. SOWs">> ELSE <<"05. MSAs">>)}

EarlierFiles(doc, name) ==
  LET prefix == IF doc = "proposal" THEN ProposalPrefix(name, SL_Risk)
                ELSE IF doc = "sow"
                THEN <<"AMZ Risk - ">> \o name \o <<" - SOW - ">> \o SL_Risk
                ELSE MsaPrefix(name)
  IN {[dir |-> Folder(CLIENTS_FOLDER_ID, name,
                      IF doc = "proposal" THEN <<"02. Proposals">>
                      ELSE IF doc = "sow" THEN <<"04. SOWs">> ELSE <<"05. MSAs">>),
       name |-> prefix \o <<" - ", Earlier, ".docx">>,
       body |-> "filled"]}

\* The CRM content and the storage content a run may find.  Company A and
\* deal d1 vary; company B and deal d2 ask for the document.  One document
\* type at a time carries requests; the others are already done, and where
\* the SOW flow is not the one looked at its files of today exist.  With
\* old, company B has a document of the type looked at from an earlier day.
InitInputs(focus, tA, foundA, sA, sAc, rawA, old, nameA) ==
  /\ company = [c \in Companies |->
       [name |-> IF c = "A" THEN nameA ELSE CompanyName(c),
        type |-> IF c = "A" THEN tA ELSE T_prospect,
        nda_status |-> IF focus = "nda" THEN (IF c = "A" THEN sA ELSE S_generate)
                       ELSE S_generated,
        msa_status |-> IF focus = "msa" THEN (IF c = "A" THEN sA ELSE S_generate)
                       ELSE S_generated]]
  /\ contact = [c \in Companies |->
       Person(c, IF c = "A" THEN foundA ELSE TRUE,
              IF focus = "nda" THEN (IF c = "A" THEN sAc ELSE S_generate) ELSE S_Generated,
              IF focus = "msa" THEN (IF c = "A" THEN sAc ELSE S_generate) ELSE S_Generated)]
  /\ deal = [d \in Deals |->
       [company |-> IF d = "d1" THEN "A" ELSE "B",
        proposal_status |-> IF focus = "proposal"
                            THEN (IF d = "d1" THEN sA ELSE S_generate) ELSE S_Generated,
        sow_status |-> IF focus = "sow"
                       THEN (IF d = "d1" THEN sA ELSE S_generate) ELSE S_Generated,
        service_line |-> IF d = "d1" THEN rawA ELSE RawNone]]
  /\ LET today == IF focus = "sow" THEN {}
                ELSE {d \in Deals : /\ ~IsVendorType(company[deal[d].company].type)
                                     /\ company[deal[d].company].name # DirtyName}
         nm(d) == company[deal[d].company].name
         was == IF old THEN {"B"} ELSE {}
     IN /\ folders = UNION {{Folder(CLIENTS_FOLDER_ID, nm(d), <<>>), SowFolder(nm(d))}
                             : d \in today}
                      \cup UNION {EarlierFolders(focus, company[c].name) : c \in was}
        /\ files = UNION {SowFilesOf(nm(d), ServiceLines(deal[d].service_line)) : d \in today}
                    \cup UNION {EarlierFiles(focus, company[c].name) : c \in was}
  /\ pending = {}

ServiceLineInputs ==
  {RawNone,
   RawStr(<<"Training", ";", " ", "Recruiting">>),
   RawList(<<SL_Other>>)}

NewFlow(doc, ent) ==
  [doc |-> doc, ent |-> ent, co |-> "", ctype |-> <<>>,
   lines |-> <<>>, line |-> <<>>, tmpl |-> <<>>, dir |-> NoFolder, name |-> <<>>,
   polls |-> 0, topatch |-> <<>>,
   \* what this unit of work has done so far
   checked |-> FALSE, copies |-> 0, down |-> FALSE, up |-> FALSE,
   patched |-> {}, mails |-> 0, out |-> ""]

Init ==
  /\ \E focus \in Docs, tA \in {T_prospect, T_vendor}, foundA \in BOOLEAN,
        sA \in StatusInputs, sAc \in StatusInputs, rawA \in ServiceLineInputs,
        old \in BOOLEAN, nameA \in {CompanyName("A"), DirtyName} :
       /\ focus # "nda" => nameA = CompanyName("A")
       /\ focus \in {"nda", "msa"} => rawA = RawNone
       /\ focus = "nda" => ~old
       /\ focus \in {"proposal", "sow"} => foundA /\ sAc = None
       /\ ~foundA => sAc = None
       /\ InitInputs(focus, tA, foundA, sA, sAc, rawA, old, nameA)
  /\ client_folders = <<>>
  /\ stage = "auth"
  /\ idx = 1
  /\ pc = "idle"
  /\ fl = NewFlow("", "")
  /\ runs = 1
  /\ faults = 0
  /\ made = <<>>

\* ------------------------------------------------------------------ helpers
\* range(10) of the wait loops (897, 1077)
PollAttempts == 10

Key(f) == <<f.doc, f.ent, f.line>>
NoneMade == [calls |-> 0, copies |-> 0, uploads |-> 0, rounds |-> 0]
Made(k) == IF k \in DOMAIN made THEN made[k] ELSE NoneMade
Count(k, fields) ==
  (k :> [x \in DOMAIN NoneMade |-> IF x \in fields THEN Made(k)[x] + 1 ELSE Made(k)[x]])
    @@ made

\* the lookup as it would be if no company were excluded
AllowSubfolders_always(company_name) == TRUE

\* client_folders.get(company_name, {}).get("allow_subfolders", True)
AllowSubfolders(company_name) ==
  IF company_name \in DOMAIN client_folders THEN client_folders[company_name] ELSE TRUE

\* continue: this unit of work is over, the loop goes on
Continue(out, mails) ==
  /\ pc' = "end"
  /\ fl' = [fl EXCEPT !.out = out, !.mails = @ + mails]

\* return: the flow is over
Return(out, mails) ==
  /\ pc' = "end"
  /\ fl' = [fl EXCEPT !.out = out, !.mails = @ + mails, !.lines = <<>>]

\* an exception nobody catches ends the script
Raise(error) ==
  /\ stage' = "crashed"
  /\ pc' = "halt"
  /\ fl' = [fl EXCEPT !.out = error]

\* a remote call answers with a failure
Fault == faults < MaxFaults /\ faults' = faults + 1

\* the flow the script runs after the flow (doc, i) of the section st
NextFlow(st, doc, i) ==
  IF st = "final"
  THEN IF doc = "nda" THEN [stage |-> "final", doc |-> "msa", idx |-> i]
       ELSE IF i < Len(CompanyList) THEN [stage |-> "final", doc |-> "nda", idx |-> i + 1]
       ELSE [stage |-> "done", doc |-> "", idx |-> 1]
  ELSE IF i < (IF st \in {"nda", "msa"} THEN Len(CompanyList) ELSE Len(DealList))
       THEN [stage |-> st, doc |-> doc, idx |-> i + 1]
  ELSE IF st = "nda"      THEN [stage |-> "proposal", doc |-> "proposal", idx |-> 1]
  ELSE IF st = "proposal" THEN [stage |-> "sow", doc |-> "sow", idx |-> 1]
  ELSE IF st = "sow"      THEN [stage |-> "msa", doc |-> "msa", idx |-> 1]
  ELSE [stage |-> "final", doc |-> "nda", idx |-> 1]

EntityAt(doc, i) == IF doc \in {"nda", "msa"} THEN CompanyList[i] ELSE DealList[i]

\* the loop calls generate_..._for_...(entity)
Call(n) ==
  /\ stage' = n.stage
  /\ idx' = n.idx
  /\ IF n.stage = "done"
     THEN /\ pc' = "idle"
          /\ fl' = NewFlow("", "")
          /\ made' = made
     ELSE /\ pc' = "gate"
          /\ fl' = NewFlow(n.doc, EntityAt(n.doc, n.idx))
          /\ made' = Count(<<n.doc, EntityAt(n.doc, n.idx), <<>> >>, {"calls"})

\* the first unit of work of a flow, or the next iteration of its loop
Unit(f) ==
  IF f.doc \in {"proposal", "sow"}
  THEN LET co == company[f.co].name
           ln == Head(f.lines)
       IN [f EXCEPT !.line = ln, !.lines = Tail(f.lines),
                    !.name = IF f.doc = "proposal" THEN ProposalFilename(co, ln)
                             ELSE SowFilename(co, ln),
                    !.polls = 0, !.topatch = <<>>, !.checked = FALSE, !.copies = 0,
                    !.down = FALSE, !.up = FALSE, !.patched = {}, !.mails = 0,
                    !.out = ""]
  ELSE [f EXCEPT !.name = IF f.doc = "msa" THEN MsaFilename(company[f.co].name)
                          ELSE NdaFilename(f.ctype, contact[f.co])]

\* where a flow goes once its target folder is known
ToTarget(f) ==
  /\ fl' = Unit(f)
  /\ pc' = IF f.doc = "nda" THEN "copy" ELSE "exist"

\* ------------------------------------------------- start of the script
\* the start as it would be if the script went on without a token
get_ms_token_unchecked ==
  /\ stage = "auth"
  /\ Fault
  /\ stage' = "fetch"
  /\ idx' = 1
  /\ UNCHANGED <<crm, storage, client_folders, pc, fl, runs, made>>

\* 94-114: the token is fetched at import time; without it the script raises
get_ms_token ==
  /\ stage = "auth"
  /\ \/ /\ stage' = "fetch"
        /\ idx' = 1
        /\ UNCHANGED <<faults, pc, fl>>
     \/ /\ Fault
        /\ Raise("AuthFailure")
        /\ idx' = idx
  /\ UNCHANGED <<crm, storage, client_folders, runs, made>>

\* 324-348 and 385-389: one page of a CRM listing is read; the loop goes on
\* while the page names a next cursor, and ends with the page that names none
fetch_all_hubspot_data ==
  /\ stage = "fetch"
  /\ \/ /\ idx < MaxPages
        /\ idx' = idx + 1
        /\ stage' = stage
     \/ /\ idx' = 1
        /\ stage' = "folders"
  /\ UNCHANGED <<crm, storage, client_folders, pc, fl, runs, faults, made>>

\* 475-506 and 516-523: one row of the Companies sheet
get_or_create_company_folder ==
  /\ stage = "folders"
  /\ LET c == CompanyList[idx]
         name == company[c].name
         ctype == Strip(company[c].type)
         safe_name == sanitize_folder_name(name)
         allow_subfolders == ~IsVendorType(ctype)
         parent_id == IF allow_subfolders THEN CLIENTS_FOLDER_ID
                      ELSE VENDORS_PARTNERS_FOLDER_ID
         folder == Folder(parent_id, safe_name, <<>>)
         entry == (name :> allow_subfolders) @@ client_folders
     IN \/ /\ folder \in folders
           /\ client_folders' = entry
           /\ UNCHANGED <<folders, faults>>
        \/ /\ folder \notin folders
           /\ folders' = folders \cup {folder}
           /\ client_folders' = entry
           /\ faults' = faults
        \/ /\ folder \notin folders
           /\ Fault
           /\ UNCHANGED <<folders, client_folders>>
  /\ IF idx < Len(CompanyList)
     THEN /\ idx' = idx + 1
          /\ UNCHANGED <<stage, pc, fl, made>>
     ELSE Call([stage |-> "nda", doc |-> "nda", idx |-> 1])
  /\ UNCHANGED <<crm, files, pending, runs>>

\* ---------------------------------------------------------------- the gates
\* the selection as it would be without its else branch
NdaTemplate_nodefault(contact_type) ==
  IF contact_type = S_candidate THEN <<"TEMPLATE_NDA_CANDIDATE_ID">>
  ELSE IF contact_type = <<"c","o","n","t","r","a","c","t","o","r">>
  THEN <<"TEMPLATE_NDA_CONTRACTOR_ID">>
  ELSE None

\* 630-636
NdaTemplate(contact_type) ==
  IF contact_type = S_candidate THEN <<"TEMPLATE_NDA_CANDIDATE_ID">>
  ELSE IF contact_type \in {<<"c","o","n","t","r","a","c","t","o","r">>,
                            <<"e","m","p","l","o","y","e","e">>,
                            <<"p","a","r","t","n","e","r","/","p","r","o","d","u","c","e","r">>}
  THEN <<"TEMPLATE_NDA_CONTRACTOR_ID">>
  ELSE <<"TEMPLATE_NDA_CORPORATE_ID">>

\* the gate as it would be if it asked for both requests
NdaGate_both(company_nda_status, contact_nda_status) ==
  contact_nda_status = S_generate /\ company_nda_status = S_generate

\* 627: the flow goes on when either side asks for the document
NdaGate(company_nda_status, contact_nda_status) ==
  ~(contact_nda_status # S_generate /\ company_nda_status # S_generate)

\* 615-636
generate_nda_gate ==
  /\ pc = "gate" /\ fl.doc = "nda"
  /\ LET c == fl.ent
         props == company[c]
         company_nda_status == Lower(Strip(OrEmpty(props.nda_status)))
         ct == contact[c]
         contact_nda_status == Lower(Strip(OrEmpty(ct.nda_status)))
         contact_type == Lower(Strip(OrEmpty(ct.contact_type)))
     IN IF ~ct.found THEN Return("nocontact", 0)
        ELSE IF ~NdaGate(company_nda_status, contact_nda_status) THEN Return("skip", 0)
        ELSE /\ pc' = "folder"
             /\ fl' = [fl EXCEPT !.co = c, !.ctype = contact_type,
                                 !.tmpl = NdaTemplate(contact_type)]
  /\ UNCHANGED <<crm, storage, client_folders, stage, idx, runs, faults, made>>

\* 1218: only the contact's status is looked at
MsaGate(contact_status) == contact_status = S_generate

\* 1209-1219; fetch_primary_contact_for_msa gives {} when there is no contact
generate_msa_gate ==
  /\ pc = "gate" /\ fl.doc = "msa"
  /\ LET c == fl.ent
         ct == contact[c]
         contact_status == Strip(Lower(OrEmpty(IF ct.found THEN ct.msa_status ELSE None)))
     IN IF ~MsaGate(contact_status) THEN Return("skip", 0)
        ELSE /\ pc' = "folder"
             /\ fl' = [fl EXCEPT !.co = c, !.tmpl = <<"MSA_TEMPLATE_ID">>]
  /\ UNCHANGED <<crm, storage, client_folders, stage, idx, runs, faults, made>>

\* 823
ProposalGate(status) == status = S_generate

\* 822-848: .get("proposal_status", "") is None for a null property, and
\* None.strip() raises AttributeError
generate_proposal_gate ==
  /\ pc = "gate" /\ fl.doc = "proposal"
  /\ LET d == deal[fl.ent]
     IN IF d.proposal_status = None THEN Raise("AttributeError") /\ idx' = idx
        ELSE /\ UNCHANGED <<stage, idx>>
             /\ IF ~ProposalGate(Lower(Strip(d.proposal_status))) THEN Return("skip", 0)
                ELSE IF d.company = "" THEN Return("nocompany", 0)
                ELSE IF ~AllowSubfolders(company[d.company].name) THEN Return("vendor", 0)
                ELSE /\ pc' = "folder"
                     /\ fl' = [fl EXCEPT !.co = d.company,
                                         !.lines = ServiceLines(d.service_line)]
  /\ UNCHANGED <<crm, storage, client_folders, runs, faults, made>>

\* 987-1009: the flow starts without reading sow_status
generate_sow_start ==
  /\ pc = "gate" /\ fl.doc = "sow"
  /\ LET d == deal[fl.ent]
     IN IF d.company = "" THEN Return("nocompany", 0)
        ELSE IF ~AllowSubfolders(company[d.company].name) THEN Return("vendor", 0)
        ELSE /\ pc' = "folder"
             /\ fl' = [fl EXCEPT !.co = d.company,
                                 !.lines = ServiceLines(d.service_line)]
  /\ UNCHANGED <<crm, storage, client_folders, stage, idx, runs, faults, made>>

\* -------------------------------------------------------------- the folders
\* the placement as it would be if every document went into the root folder
SubfolderName_root(doc) == <<>>

\* the subfolder of each document type (654, 866, 1039, 1238)
SubfolderName(doc) ==
  IF doc = "nda" THEN <<"01. NDA">>
  ELSE IF doc = "proposal" THEN <<"02. Proposals">>
  ELSE IF doc = "sow" THEN <<"04. SOWs">>
  ELSE <<"05. MSAs">>

\* 638-647, 853-861, 1014-1022, 1221-1231: the company folder is looked up
\* by the company's name as the CRM gives it
locate_company_folder ==
  /\ pc = "folder"
  /\ LET company_name == company[fl.co].name
         allow_subfolders == AllowSubfolders(company_name)
         parent_id == IF fl.doc \in {"nda", "msa"} /\ ~allow_subfolders
                      THEN VENDORS_PARTNERS_FOLDER_ID ELSE CLIENTS_FOLDER_ID
         company_folder == Folder(parent_id, company_name, <<>>)
     IN IF company_folder \notin folders
        THEN Return("nofolder", IF fl.doc = "msa" THEN 1 ELSE 0)
        ELSE IF allow_subfolders
        THEN /\ pc' = "subfolder"
             /\ fl' = [fl EXCEPT !.dir = Folder(parent_id, company_name,
                                                 SubfolderName(fl.doc))]
        ELSE ToTarget([fl EXCEPT !.dir = company_folder])
  /\ UNCHANGED <<crm, storage, client_folders, stage, idx, runs, faults, made>>

\* 575-598: found, or a copy of the template folder is requested
get_or_create_subfolder ==
  /\ pc = "subfolder" /\ fl.doc # "sow"
  /\ \/ /\ fl.dir \in folders
        /\ ToTarget(fl)
        /\ UNCHANGED <<pending, faults>>
     \/ /\ fl.dir \notin folders
        /\ pending' = pending \cup {[dir |-> fl.dir, name |-> <<>>]}
        /\ pc' = "sub_relist"
        /\ UNCHANGED <<fl, faults>>
     \/ /\ fl.dir \notin folders
        /\ Fault
        /\ Return("nosub", IF fl.doc = "msa" THEN 1 ELSE 0)
        /\ UNCHANGED pending
  /\ UNCHANGED <<crm, folders, files, client_folders, stage, idx, runs, made>>

\* 600-609: one listing two seconds after the copy request
get_or_create_subfolder_relist ==
  /\ pc = "sub_relist"
  /\ \/ /\ fl.dir \in folders
        /\ ToTarget(fl)
        /\ faults' = faults
     \/ /\ fl.dir \notin folders
        /\ Fault
        /\ Return("nosub", IF fl.doc = "msa" THEN 1 ELSE 0)
  /\ UNCHANGED <<crm, storage, client_folders, stage, idx, runs, made>>

\* 1025-1048: the SOW flow creates its subfolder itself
sow_subfolder ==
  /\ pc = "subfolder" /\ fl.doc = "sow"
  /\ \/ /\ fl.dir \in folders
        /\ ToTarget(fl)
        /\ UNCHANGED <<folders, faults>>
     \/ /\ fl.dir \notin folders
        /\ folders' = folders \cup {fl.dir}
        /\ ToTarget(fl)
        /\ faults' = faults
     \/ /\ fl.dir \notin folders
        /\ Fault
        /\ Return("nosub", 1)
        /\ UNCHANGED folders
  /\ UNCHANGED <<crm, files, pending, client_folders, stage, idx, runs, made>>

\* ------------------------------------------------------ the existence check
\* 800-808: any name that starts with the prefix, whatever its date
proposal_exists_for_service_line(folder_id, company_name, service_line) ==
  \E n \in Children(folder_id) : StartsWith(n, ProposalPrefix(company_name, service_line))

\* 1059 and 1258-1259: the exact name
ExactExists(folder_id, filename) == filename \in Children(folder_id)

\* 881-885, 1059-1064, 1253-1261; the NDA flow has no such step
check_existing ==
  /\ pc = "exist"
  /\ IF fl.doc = "proposal"
     THEN IF proposal_exists_for_service_line(fl.dir, company[fl.co].name, fl.line)
          THEN Continue("exists", 0)
          ELSE /\ pc' = "copy"
               /\ fl' = [fl EXCEPT !.checked = TRUE, !.tmpl = PROPOSAL_TEMPLATES(fl.line)]
     ELSE IF fl.doc = "sow"
     THEN IF ExactExists(fl.dir, fl.name) THEN Continue("exists", 0)
          ELSE IF SOW_TEMPLATES(fl.line) = None THEN Continue("notemplate", 0)
          ELSE /\ pc' = "copy"
               /\ fl' = [fl EXCEPT !.checked = TRUE, !.tmpl = SOW_TEMPLATES(fl.line)]
     ELSE IF ExactExists(fl.dir, fl.name)
          THEN /\ pc' = "patch"
               /\ fl' = [fl EXCEPT !.out = "exists", !.topatch = <<"contact">>]
          ELSE /\ pc' = "copy"
               /\ fl' = [fl EXCEPT !.checked = TRUE]
  /\ made' = IF fl.doc = "msa" /\ ExactExists(fl.dir, fl.name)
             THEN Count(Key(fl), {"rounds"}) ELSE made
  /\ UNCHANGED <<crm, storage, client_folders, stage, idx, runs, faults>>

\* ------------------------------------------------------- copy, wait, fill
\* the refusal as it would be handled without the return / continue
copy_refused_ignored ==
  /\ pc' = "poll"
  /\ fl' = [fl EXCEPT !.copies = @ + 1, !.out = "rejected", !.mails = @ + 1]
  /\ stage' = stage

\* a copy request answered with anything but 202 (668-671, 890-894, 1071-1074,
\* 1266-1269).  The SOW flow hands resp.json(), a dict, to send_error_email,
\* whose MIMEText(message) raises outside its try: the script stops there.
copy_refused ==
  IF fl.doc = "sow"
  THEN /\ stage' = "crashed"
       /\ pc' = "halt"
       /\ fl' = [fl EXCEPT !.copies = @ + 1, !.out = "rejected"]
  ELSE /\ pc' = "end"
       /\ fl' = [fl EXCEPT !.copies = @ + 1, !.out = "rejected", !.mails = @ + 1,
                           !.lines = IF fl.doc = "proposal" THEN @ ELSE <<>>]
       /\ stage' = stage

\* the copy request of 666-671, 885-894, 1066-1074 and 1264-1269
copy_template ==
  /\ pc = "copy"
  /\ \/ /\ pending' = pending \cup {[dir |-> fl.dir, name |-> fl.name]}
        /\ pc' = "poll"
        /\ fl' = [fl EXCEPT !.copies = @ + 1, !.polls = 0]
        /\ UNCHANGED <<faults, stage>>
     \/ /\ Fault
        /\ pending' = pending
        /\ copy_refused
  /\ made' = Count(Key(fl), {"copies"})
  /\ UNCHANGED <<crm, folders, files, client_folders, idx, runs>>

\* listings a flow makes before it gives up: the loops of 897 and 1077, and
\* the single listing of 679 and 1271
Listings(doc) == IF doc \in {"proposal", "sow"} THEN PollAttempts ELSE 1

\* the timeout as it would be handled without the return / continue
copy_timeout_falls_through ==
  /\ pc' = "download"
  /\ fl' = [fl EXCEPT !.polls = @ + 1, !.out = "timeout", !.mails = @ + 1]

\* 681-683, 902-904, 1082-1084, 1273-1275: the file was in none of the
\* listings; a mail is sent and the unit of work is left
copy_timeout ==
  /\ pc' = "end"
  /\ fl' = [fl EXCEPT !.polls = @ + 1, !.out = "timeout", !.mails = @ + 1,
                      !.lines = IF fl.doc \in {"proposal", "sow"} THEN @ ELSE <<>>]

\* 673-683, 896-906, 1076-1086, 1270-1275
poll_for_copy ==
  /\ pc = "poll"
  /\ IF ExactExists(fl.dir, fl.name)
     THEN /\ pc' = "download"
          /\ fl' = [fl EXCEPT !.polls = @ + 1]
          /\ faults' = faults
     ELSE IF fl.polls + 1 < Listings(fl.doc)
     THEN /\ pc' = pc
          /\ fl' = [fl EXCEPT !.polls = @ + 1]
          /\ faults' = faults
     ELSE /\ Fault
          /\ copy_timeout
  /\ UNCHANGED <<crm, storage, client_folders, stage, idx, runs, made>>

\* 685-707, 906-932, 1086-1113, 1276-1297: the answer is written to disk
\* unchecked, and Document(filename) raises on anything but a document
download_and_fill ==
  /\ pc = "download"
  /\ \/ /\ pc' = "upload"
        /\ fl' = [fl EXCEPT !.down = TRUE]
        /\ UNCHANGED <<faults, stage>>
     \/ /\ Fault
        /\ Raise("BadZipFile")
  /\ UNCHANGED <<crm, storage, client_folders, idx, runs, made>>

\* the patches as they would be if only the contact were written
PatchTargets_contact(doc) == <<"contact">>

\* the records whose status a flow patches after its upload (717-718, 941,
\* 1122, 1304)
PatchTargets(doc) ==
  IF doc = "nda" THEN <<"contact", "company">>
  ELSE IF doc = "msa" THEN <<"contact">>
  ELSE <<"deal">>

\* 709-715, 934-939, 1115-1120, 1298-1303: the answer to the PUT is not read
upload_filled ==
  /\ pc = "upload"
  /\ \/ /\ files' = {f \in files : ~(f.dir = fl.dir /\ f.name = fl.name)}
                      \cup {[dir |-> fl.dir, name |-> fl.name, body |-> "filled"]}
        /\ fl' = [fl EXCEPT !.up = TRUE, !.topatch = PatchTargets(fl.doc)]
        /\ made' = Count(Key(fl), {"rounds", "uploads"})
        /\ faults' = faults
     \/ /\ Fault
        /\ files' = files
        /\ fl' = [fl EXCEPT !.topatch = PatchTargets(fl.doc)]
        /\ made' = Count(Key(fl), {"rounds"})
  /\ pc' = "patch"
  /\ UNCHANGED <<crm, folders, pending, client_folders, stage, idx, runs>>

\* ------------------------------------------------------- the status patches
\* the patch as it would be if it wrote the request tag back
Patched_request(doc, target) == S_generate

\* 553-573, 790-798, 965-973, 1167-1180: what a successful PATCH writes
Patched(doc, target) ==
  IF target = "company" THEN S_generated ELSE S_Generated

StatusField(doc) ==
  IF doc = "nda" THEN "nda_status"
  ELSE IF doc = "msa" THEN "msa_status"
  ELSE IF doc = "proposal" THEN "proposal_status"
  ELSE "sow_status"

\* 717-718, 941, 1122, 1260, 1304: a PATCH that fails is mailed, nothing else
update_status ==
  /\ pc = "patch"
  /\ LET target == Head(fl.topatch)
         rest == Tail(fl.topatch)
         value == Patched(fl.doc, target)
         field == StatusField(fl.doc)
         after(f) == IF rest = <<>>
                     THEN [f EXCEPT !.out = IF @ = "" THEN "done" ELSE @,
                                    !.lines = IF fl.doc \in {"proposal", "sow"}
                                              THEN @ ELSE <<>>]
                     ELSE f
     IN /\ \/ /\ faults' = faults
              /\ fl' = after([fl EXCEPT !.topatch = rest, !.patched = @ \cup {target}])
              /\ company' = IF target = "company"
                            THEN [company EXCEPT ![fl.co][field] = value] ELSE company
              /\ contact' = IF target = "contact"
                            THEN [contact EXCEPT ![fl.co][field] = value] ELSE contact
              /\ deal'    = IF target = "deal"
                            THEN [deal EXCEPT ![fl.ent][field] = value] ELSE deal
           \/ /\ Fault
              /\ fl' = after([fl EXCEPT !.topatch = rest, !.mails = @ + 1])
              /\ UNCHANGED crm
        /\ pc' = IF rest = <<>> THEN "end" ELSE pc
  /\ UNCHANGED <<storage, client_folders, stage, idx, runs, made>>

\* ---------------------------------------------------------------- the loops
\* 876, 1054: next service line; 723-724, 946-947, 1127-1128, 1309-1310,
\* 1320-1322: next entity, next section
next_unit ==
  /\ pc = "end"
  /\ IF fl.lines # <<>>
     THEN /\ pc' = "exist"
          /\ fl' = Unit(fl)
          /\ UNCHANGED <<stage, idx, made>>
     ELSE Call(NextFlow(stage, fl.doc, idx))
  /\ UNCHANGED <<crm, storage, client_folders, runs, faults>>

\* ------------------------------------------------------------ the back end
\* an accepted copy completes; a name that is taken is not overwritten
complete_copy ==
  /\ \E p \in pending :
       /\ pending' = pending \ {p}
       /\ IF p.name = <<>>
          THEN /\ folders' = folders \cup {p.dir}
               /\ files' = files
          ELSE /\ folders' = folders
               /\ files' = IF p.name \in Children(p.dir) THEN files
                           ELSE files \cup {[dir |-> p.dir, name |-> p.name,
                                             body |-> "template"]}
  /\ UNCHANGED <<crm, client_folders, stage, idx, pc, fl, runs, faults, made>>

\* the scheduler starts the script again
start_run ==
  /\ stage \in {"done", "crashed"}
  /\ runs < MaxRuns
  /\ runs' = runs + 1
  /\ stage' = "auth"
  /\ idx' = 1
  /\ pc' = "idle"
  /\ fl' = NewFlow("", "")
  /\ client_folders' = <<>>
  /\ UNCHANGED <<crm, storage, faults, made>>

Next ==
  \/ get_ms_token
  \/ fetch_all_hubspot_data
  \/ get_or_create_company_folder
  \/ generate_nda_gate
  \/ generate_proposal_gate
  \/ generate_sow_start
  \/ generate_msa_gate
  \/ locate_company_folder
  \/ get_or_create_subfolder
  \/ get_or_create_subfolder_relist
  \/ sow_subfolder
  \/ check_existing
  \/ copy_template
  \/ poll_for_copy
  \/ download_and_fill
  \/ upload_filled
  \/ update_status
  \/ next_unit
  \/ complete_copy
  \/ start_run

Spec == Init /\ [][Next]_vars

\* The interpreter executes the script statement by statement, and a copy
\* that the storage has accepted is completed in the end; when the scheduler
\* starts the script again is left open.
Run ==
  \/ get_ms_token
  \/ fetch_all_hubspot_data
  \/ get_or_create_company_folder
  \/ generate_nda_gate
  \/ generate_proposal_gate
  \/ generate_sow_start
  \/ generate_msa_gate
  \/ locate_company_folder
  \/ get_or_create_subfolder
  \/ get_or_create_subfolder_relist
  \/ sow_subfolder
  \/ check_existing
  \/ copy_template
  \/ poll_for_copy
  \/ download_and_fill
  \/ upload_filled
  \/ update_status
  \/ next_unit
  \/ complete_copy

SpecFair == Spec /\ WF_vars(Run)

\* ===================================================== the text functions
\* The functions of the script that compute on text alone, each applied to
\* the inputs of a bounded set.  fl holds the function, its argument and its
\* result; pc says whether the function has been applied.
MaxLen == 4

SeqsUpTo(S, n) == UNION {[1..k -> S] : k \in 0..n}

\* contact_type values as the CRM may hold them (629)
ContactTypeInputs ==
  {None, <<>>, <<" ">>, S_candidate, S_Candidate_sp,
   <<"C","O","N","T","R","A","C","T","O","R">>,
   <<"e","m","p","l","o","y","e","e"," ">>,
   <<"P","a","r","t","n","e","r","/","P","r","o","d","u","c","e","r">>,
   <<"p","a","r","t","n","e","r">>,
   <<"c","l","i","e","n","t">>}

\* company names: letters, a blank, a period and an illegal character
NameInputs == SeqsUpTo({"A", "b", " ", ".", "&"}, MaxLen)

\* the service-line property: null, a ';'-delimited string, or a list of
\* option values, some of them null or empty (841)
RawInputs ==
  {RawNone}
    \cup {RawStr(t) : t \in SeqsUpTo({"Training", ";", " ", "Recruiting"}, MaxLen)}
    \cup {RawList(l) : l \in SeqsUpTo({SL_Training, SL_Recruiting, None, <<>>}, MaxLen)}

\* str.replace(key, val): the occurrences of key, from the left and not
\* overlapping, become val
RECURSIVE StrReplace(_, _, _)
StrReplace(s, key, val) ==
  IF s = <<>> THEN <<>>
  ELSE IF StartsWith(s, key)
       THEN val \o StrReplace(SubSeq(s, Len(key) + 1, Len(s)), key, val)
       ELSE <<Head(s)>> \o StrReplace(Tail(s), key, val)

\* "".join(run.text for run in paragraph.runs)
RECURSIVE Join(_)
Join(paragraph) ==
  IF paragraph = <<>> THEN <<>> ELSE Head(paragraph) \o Join(Tail(paragraph))

\* 252-254: the keys are applied one after the other, in the order of the
\* dictionary; a value of None is written as ""
RECURSIVE ReplaceKeys(_, _)
ReplaceKeys(full_text, replacements) ==
  IF replacements = <<>> THEN full_text
  ELSE ReplaceKeys(StrReplace(full_text, Head(replacements).key,
                              OrEmpty(Head(replacements).val)),
                   Tail(replacements))

\* the rendering as it would be if every run were substituted on its own
replace_placeholder_per_run(paragraph, replacements) ==
  [i \in DOMAIN paragraph |-> ReplaceKeys(paragraph[i], replacements)]

\* 248-259: a paragraph is the sequence of the texts of its runs; the first
\* run receives the whole text and the others are emptied
replace_placeholder(paragraph, replacements) ==
  [i \in DOMAIN paragraph |->
     IF i = 1 THEN ReplaceKeys(Join(paragraph), replacements) ELSE <<>>]

\* the field maps of the NDA flow (696-706) and of the MSA flow (1284-1295),
\* as far as the entity name, the date and the address go; the address is
\* null in the CRM, so that .get("address", "") is None.  The text of a
\* paragraph is a sequence of the pieces  {  date  legal_entity_name
\* address  }
Replacements(flow) ==
  IF flow = "nda"
  THEN <<[key |-> <<"{", "legal_entity_name", "}">>, val |-> <<"Acme LLC">>],
         [key |-> <<"{", "address", "}">>, val |-> None]>>
  ELSE <<[key |-> <<"{", "date", "}">>, val |-> <<"2025-01-02">>],
         [key |-> <<"legal_entity_name", "}">>, val |-> <<"Acme">>],
         [key |-> <<"{", "address", "}">>, val |-> None]>>

\* paragraphs of no run, one run and two runs, a placeholder possibly
\* broken across the runs
ParagraphInputs ==
  LET texts == SeqsUpTo({"{", "date", "legal_entity_name", "address", "}"}, MaxLen)
  IN {<<>>} \cup {<<t>> : t \in texts}
       \cup UNION {{<<SubSeq(t, 1, k), SubSeq(t, k + 1, Len(t))>> : k \in 0..Len(t)}
                   : t \in texts}

TextArgs(fn) ==
  IF fn = "NdaTemplate" THEN ContactTypeInputs
  ELSE IF fn = "ServiceLines" THEN RawInputs
  ELSE IF fn = "replace_placeholder"
  THEN {[runs |-> p, flow |-> f, first |-> <<>>] : p \in ParagraphInputs, f \in {"nda", "msa"}}
  ELSE NameInputs

TextFns == {"NdaTemplate", "ServiceLines", "replace_placeholder", "sanitize_folder_name"}

TextInit ==
  /\ company = <<>> /\ contact = <<>> /\ deal = <<>>
  /\ folders = {} /\ files = {} /\ pending = {}
  /\ client_folders = <<>> /\ made = <<>>
  /\ stage = "text" /\ idx = 1 /\ runs = 1 /\ faults = 0
  /\ pc = "arg"
  /\ \E fn \in TextFns : \E arg \in TextArgs(fn) :
       fl = [fn |-> fn, arg |-> arg, res |-> <<>>]

TextRest == UNCHANGED <<crm, storage, client_folders, stage, idx, runs, faults, made>>

\* 629-636
select_nda_template ==
  /\ pc = "arg" /\ fl.fn = "NdaTemplate"
  /\ LET contact_type == Lower(Strip(OrEmpty(fl.arg)))
     IN fl' = [fl EXCEPT !.res = NdaTemplate(contact_type)]
  /\ pc' = "res"
  /\ TextRest

\* 480: the name is sanitized, and what came out is sanitized once more
apply_sanitize_folder_name ==
  /\ pc \in {"arg", "res"} /\ fl.fn = "sanitize_folder_name"
  /\ IF pc = "arg"
     THEN /\ fl' = [fl EXCEPT !.res = sanitize_folder_name(fl.arg)]
          /\ pc' = "res"
     ELSE /\ fl' = [fl EXCEPT !.arg = fl.res, !.res = sanitize_folder_name(fl.res)]
          /\ pc' = "again"
  /\ TextRest

\* 841-848 and 1002-1009
normalize_service_lines ==
  /\ pc = "arg" /\ fl.fn = "ServiceLines"
  /\ fl' = [fl EXCEPT !.res = ServiceLines(fl.arg)]
  /\ pc' = "res"
  /\ TextRest

\* 263-264 and 707, 1296: the document is rendered, and rendered once more
apply_replace_placeholder ==
  /\ pc \in {"arg", "res"} /\ fl.fn = "replace_placeholder"
  /\ IF pc = "arg"
     THEN /\ fl' = [fl EXCEPT !.res = replace_placeholder(fl.arg.runs,
                                                          Replacements(fl.arg.flow))]
          /\ pc' = "res"
     ELSE /\ fl' = [fl EXCEPT !.arg = [@ EXCEPT !.first = fl.res],
                              !.res = replace_placeholder(fl.res,
                                                          Replacements(fl.arg.flow))]
          /\ pc' = "again"
  /\ TextRest

TextNext ==
  \/ select_nda_template
  \/ apply_replace_placeholder
  \/ normalize_service_lines
  \/ apply_sanitize_folder_name

SpecText == TextInit /\ [][TextNext]_vars

\* =================================================================== claims
Norm(v) == Lower(Strip(OrEmpty(v)))
InFlight(k) == Key(fl) = k /\ pc \notin {"end", "idle", "halt"}
\* no status patch has been attempted yet for a document of the entity
NoPatchYet(doc, ent) ==
  \A k \in DOMAIN made : (k[1] = doc /\ k[2] = ent) => made[k].rounds = 0
\* the file name of the document with key k
NameOf(k) ==
  IF k[1] = "nda" THEN NdaFilename(Norm(contact[k[2]].contact_type), contact[k[2]])
  ELSE IF k[1] = "msa" THEN MsaFilename(company[k[2]].name)
  ELSE IF k[1] = "proposal" THEN ProposalFilename(company[deal[k[2]].company].name, k[3])
  ELSE SowFilename(company[deal[k[2]].company].name, k[3])

\* C1: with every remote call succeeding, however often a flow is invoked
\* for the same entity (and service line) on the same day, at most one copy
\* request, one upload and one round of status patches are made for the
\* document, and once the work on it is over exactly one of each.
C1_Idempotent ==
  faults = 0 =>
    \A k \in DOMAIN made :
      /\ made[k].copies <= 1 /\ made[k].uploads <= 1 /\ made[k].rounds <= 1
      /\ (made[k].copies = 1 /\ ~InFlight(k)) =>
            /\ made[k].uploads = 1 /\ made[k].rounds = 1
            /\ Cardinality({f \in files : f.name = NameOf(k) /\ f.body = "filled"}) = 1
            /\ \A p \in pending : p.name # NameOf(k)

\* C1 witness: the NDA flow has been invoked a second time for a company whose
\* NDA the first invocation generated, and has left at the gate
C1_Witness ==
  /\ faults = 0 /\ stage = "final" /\ pc = "end"
  /\ fl.doc = "nda" /\ fl.out = "skip"
  /\ Made(Key(fl)).calls = 2 /\ Made(Key(fl)).copies = 1
  /\ Made(Key(fl)).uploads = 1 /\ Made(Key(fl)).rounds = 1

\* C2: a copy request is issued only after an existence check for its name
\* found the name absent.
C2_CopyOnlyAfterCheck == fl.copies > 0 => fl.checked

\* C3: a flow gives up waiting for its copy only after PollAttempts listings.
C3_TimeoutOnlyAfterTenListings == fl.out = "timeout" => fl.polls = PollAttempts

\* C4: after a timeout a mail has been sent, nothing was downloaded, uploaded
\* or patched for the unit of work, the script has not stopped and its loop
\* is ready to take the next unit of work.
C4_Timeout ==
  fl.out = "timeout" =>
    /\ pc = "end" /\ stage # "crashed"
    /\ fl.mails >= 1
    /\ ~fl.down /\ ~fl.up /\ fl.patched = {} /\ fl.topatch = <<>>
    /\ ENABLED next_unit

C4_Witness ==
  /\ fl.out = "timeout" /\ fl.doc = "proposal" /\ fl.polls = PollAttempts
  /\ fl.lines # <<>>

\* C5: after a refused copy request the unit of work is over: one request
\* was made, no listing, no download, no upload and no status patch.
C5_CopyRejected ==
  fl.out = "rejected" =>
    /\ pc \in {"end", "halt"}
    /\ fl.copies = 1 /\ fl.polls = 0
    /\ ~fl.down /\ ~fl.up /\ fl.patched = {} /\ fl.topatch = <<>>

C5_Witness == fl.out = "rejected" /\ fl.doc = "msa" /\ pc = "end"

\* C6: a SOW copy request is made for a deal only if the deal's sow_status,
\* trimmed and case-folded, is "generate".
C6_SowGated ==
  (fl.doc = "sow" /\ fl.copies > 0 /\ NoPatchYet("sow", fl.ent))
    => Norm(deal[fl.ent].sow_status) = S_generate

\* C7: with a primary contact resolved, the step that leaves the NDA gate
\* goes on to the folder lookup exactly when the company's or the contact's
\* nda_status, trimmed and case-folded, is "generate"; otherwise it ends the
\* flow and changes neither the storage nor the CRM, and sends no mail.
C7_NdaGate ==
  [][(pc = "gate" /\ fl.doc = "nda" /\ contact[fl.ent].found /\ pc' # "gate") =>
       LET asks == \/ Norm(company[fl.ent].nda_status) = S_generate
                   \/ Norm(contact[fl.ent].nda_status) = S_generate
       IN /\ (pc' = "folder") <=> asks
          /\ ~asks => /\ pc' = "end" /\ fl'.out = "skip" /\ fl'.mails = 0
                      /\ UNCHANGED <<crm, storage>>]_vars

\* C7 witness: the flow is past the gate on the contact's request alone,
\* written with other case and a leading blank
C7_Witness ==
  /\ pc = "folder" /\ fl.doc = "nda"
  /\ Norm(company[fl.ent].nda_status) # S_generate
  /\ contact[fl.ent].nda_status = S_GENERATE_sp

\* C8: the MSA flow leaves at its gate only if neither the company's nor the
\* contact's msa_status, trimmed and case-folded, is "generate".
C8_MsaGateEitherSide ==
  (fl.doc = "msa" /\ pc = "end" /\ fl.out = "skip") =>
    /\ Norm(company[fl.ent].msa_status) # S_generate
    /\ Norm(contact[fl.ent].msa_status) # S_generate

\* C9: no status value makes a gate raise, and a gate lets a flow pass exactly
\* when the trimmed and case-folded value is "generate".
C9_GateNormalises ==
  /\ fl.out # "AttributeError"
  /\ (fl.doc = "proposal" /\ pc \notin {"gate", "halt"} /\ NoPatchYet("proposal", fl.ent))
       => ((fl.out # "skip") <=> Norm(deal[fl.ent].proposal_status) = S_generate)
  /\ (fl.doc = "nda" /\ pc \notin {"gate", "halt"} /\ NoPatchYet("nda", fl.ent)
        /\ contact[fl.ent].found)
       => ((fl.out # "skip") <=> \/ Norm(company[fl.ent].nda_status) = S_generate
                                 \/ Norm(contact[fl.ent].nda_status) = S_generate)

\* C10: a company without a primary contact whose own status asks for the
\* document is not turned away at the gate of the NDA and MSA flows.
C10_NoContactStillGenerates ==
  (/\ fl.doc \in {"nda", "msa"} /\ pc = "end"
   /\ ~contact[fl.ent].found
   /\ Norm(company[fl.ent][StatusField(fl.doc)]) = S_generate)
    => fl.out \notin {"nocontact", "skip"}

\* the sides of the CRM that carry the status of a document type
Sides(doc) == IF doc \in {"nda", "msa"} THEN {"company", "contact"} ELSE {"deal"}

\* the document of the name lies in the folder, filled in
FilledAt(dir, name) == [dir |-> dir, name |-> name, body |-> "filled"] \in files

\* C11: when the SOW or the MSA flow has found its document present and no
\* status patch of it has failed, it has made no copy request and has patched
\* the status on every side that carries it.  (The NDA flow never finds its
\* document present: it does not look.)
C11_ExistingIsPatched ==
  (pc = "end" /\ fl.out = "exists" /\ fl.doc \in {"sow", "msa"} /\ fl.mails = 0)
    => fl.copies = 0 /\ fl.patched = Sides(fl.doc)

\* C12: the MSA flow makes no copy request while an MSA of the company from
\* another day lies in the target folder, and the Proposal and SOW flows pass
\* a service line over as present only when the file of today's name is there.
C12_MatchGranularity ==
  /\ (fl.doc = "msa" /\ fl.copies > 0)
       => ~\E n \in Children(fl.dir) :
             n # fl.name /\ StartsWith(n, MsaPrefix(company[fl.co].name))
  /\ (fl.doc \in {"proposal", "sow"} /\ fl.out = "exists")
       => fl.name \in Children(fl.dir)

\* C13: once the filled document lies under its name, no later invocation
\* asks for a copy under that name, and a Proposal flow that finds the filled
\* document of today goes on to patch the status.
C13_RerunAfterPatchFailure ==
  [][/\ (pc = "copy" /\ pc' # "copy") => ~FilledAt(fl.dir, fl.name)
     /\ (pc = "exist" /\ fl.doc = "proposal" /\ FilledAt(fl.dir, fl.name)
           /\ pc' # "exist") => pc' = "patch"]_vars

\* the values that say a document is done
DoneTags == {S_generated, S_Generated}

\* C14: every step that changes a status field of a company, a contact or a
\* deal writes a done tag into it, and a field that holds a done tag keeps
\* holding one.
C14_StatusMonotone ==
  [][/\ \A c \in Companies : \A f \in {"nda_status", "msa_status"} :
          /\ company'[c][f] # company[c][f] => company'[c][f] \in DoneTags
          /\ contact'[c][f] # contact[c][f] => contact'[c][f] \in DoneTags
          /\ company[c][f] \in DoneTags => company'[c][f] \in DoneTags
          /\ contact[c][f] \in DoneTags => contact'[c][f] \in DoneTags
     /\ \A d \in Deals : \A f \in {"proposal_status", "sow_status"} :
          /\ deal'[d][f] # deal[d][f] => deal'[d][f] \in DoneTags
          /\ deal[d][f] \in DoneTags => deal'[d][f] \in DoneTags]_vars

\* C14 witness: the NDA flow has patched both sides of a company that asked
C14_Witness ==
  /\ fl.doc = "nda" /\ fl.patched = {"company", "contact"}
  /\ company[fl.co].nda_status = S_generated
  /\ contact[fl.co].nda_status = S_Generated
  /\ Made(Key(fl)).rounds = 1

\* the deal belongs to a company of the vendor or partner category
VendorDeal(d) ==
  /\ deal[d].company # ""
  /\ Lower(Strip(company[deal[d].company].type)) \in {S_vendor, S_partner}

CompanyOf(f) == IF f.doc \in {"nda", "msa"} THEN f.ent ELSE deal[f.ent].company
VendorCompany(c) == Lower(Strip(company[c].type)) \in {S_vendor, S_partner}

C17_NdaSuccess ==
  (fl.doc = "nda" /\ pc = "end" /\ fl.up /\ fl.mails = 0 /\ ~VendorCompany(fl.ent))
    => LET nda_folder == Folder(CLIENTS_FOLDER_ID, company[fl.ent].name, <<"01. NDA">>)
       IN /\ {f \in files : f.dir = nda_folder}
               = {[dir |-> nda_folder,
                   name |-> NdaFilename(Norm(contact[fl.ent].contact_type), contact[fl.ent]),
                   body |-> "filled"]}
          /\ fl.copies = 1
          /\ fl.patched = {"company", "contact"}
          /\ company[fl.ent].nda_status = S_generated
          /\ contact[fl.ent].nda_status = S_Generated

\* C17 witness: the candidate NDA of Jane Doe uploaded for the client Acme,
\* which had asked for it on the company side only
C17_Witness ==
  /\ fl.doc = "nda" /\ pc = "end" /\ fl.up /\ fl.mails = 0 /\ fl.ent = "A"
  /\ ~VendorCompany("A")
  /\ fl.name = <<"AMZ Risk - ", "C","a","n","d","i","d","a","t","e", " NDA - ",
                 "J","a","n","e", "_", "D","o","e", " - ", Today, ".docx">>
  /\ FilledAt(Folder(CLIENTS_FOLDER_ID, <<"A","c","m","e">>, <<"01. NDA">>), fl.name)
  /\ fl.patched = {"company", "contact"}

\* C18: when a service line of a deal has been passed over as present, or
\* its copy has been refused or has timed out, and the deal has further
\* service lines, the flow is at the end of the iteration and the script goes
\* on with the next service line.
C18_ServiceLinesIndependent ==
  (fl.doc \in {"proposal", "sow"} /\ fl.out \in {"exists", "rejected", "timeout"}
     /\ fl.lines # <<>>)
    => pc = "end" /\ stage # "crashed" /\ ENABLED next_unit

\* C19: the script never stops while a flow is working on an entity: whatever
\* fails there, the loops go on to the remaining entities and sections.
C19_NoFailureAbortsRun == fl.doc \in Docs => stage # "crashed"

\* the set of the records a flow patches
PatchSet(doc) == {PatchTargets(doc)[i] : i \in DOMAIN PatchTargets(doc)}

\* C20: a refused or timed-out copy, an upload that did not store the
\* document and a status patch that was not applied have each been followed
\* by a mail when the flow is past them.
C20_FailuresNotified ==
  /\ fl.out \in {"rejected", "timeout"} => fl.mails >= 1
  /\ (fl.down /\ ~fl.up /\ pc \in {"patch", "end"}) => fl.mails >= 1
  /\ (pc = "end" /\ fl.out = "done" /\ fl.patched # PatchSet(fl.doc)) => fl.mails >= 1

\* C21: while the script runs, the flow that is executing is the one of the
\* section that is executing: NDA flows in the NDA section only, and so on,
\* so that no NDA flow is invoked once the MSA section has begun.
C21_StagesNotInterleaved ==
  (fl.doc \in Docs /\ stage # "crashed") => stage = fl.doc

\* C22: within the first execution of the script, a flow that checks for
\* existence makes no copy request for a name while a copy of that name which
\* the storage has accepted is still to become visible.
C22_NoDoubleCopyInOneRun ==
  [][(runs = 1 /\ pc = "copy" /\ pc' = "poll" /\ fl.doc \in {"proposal", "sow", "msa"})
       => [dir |-> fl.dir, name |-> fl.name] \notin pending]_vars

\* C23: the step in which the token request fails stops the script and
\* leaves the CRM, the storage, the folder table and the flow counters as
\* they were, and a stopped script does nothing further.
C23_AuthFailureAborts ==
  [][/\ (stage = "auth" /\ faults' # faults)
          => /\ stage' = "crashed" /\ pc' = "halt"
             /\ UNCHANGED <<crm, storage, client_folders, made>>
     /\ (stage = "crashed" /\ stage' = "crashed")
          => UNCHANGED <<crm, client_folders, made, pc, fl>>]_vars

\* C23 witness: the first execution has stopped at the token request
C23_Witness ==
  /\ stage = "crashed" /\ pc = "halt" /\ fl.out = "AuthFailure"
  /\ runs = 1 /\ faults = 1
  /\ made = <<>> /\ client_folders = <<>>

\* C24: for every contact-type value, absent and empty ones included, the
\* NDA flow selects a template: the candidate template for "candidate", the
\* contractor template for "contractor", "employee" and "partner/producer",
\* and the corporate template for every other value, all compared after
\* trimming and case-folding.
C24_NdaTemplateTotal ==
  (pc = "res" /\ fl.fn = "NdaTemplate") =>
    LET t == Norm(fl.arg)
    IN /\ fl.res \in {<<"TEMPLATE_NDA_CANDIDATE_ID">>, <<"TEMPLATE_NDA_CONTRACTOR_ID">>,
                      <<"TEMPLATE_NDA_CORPORATE_ID">>}
       /\ fl.res = <<"TEMPLATE_NDA_CANDIDATE_ID">> <=> t = S_candidate
       /\ fl.res = <<"TEMPLATE_NDA_CONTRACTOR_ID">> <=>
            t \in {<<"c","o","n","t","r","a","c","t","o","r">>,
                   <<"e","m","p","l","o","y","e","e">>,
                   <<"p","a","r","t","n","e","r","/","p","r","o","d","u","c","e","r">>}

\* C24 witness: "Partner/Producer" has selected the contractor template
C24_Witness ==
  /\ pc = "res" /\ fl.fn = "NdaTemplate"
  /\ fl.arg = <<"P","a","r","t","n","e","r","/","P","r","o","d","u","c","e","r">>
  /\ fl.res = <<"TEMPLATE_NDA_CONTRACTOR_ID">>

\* C25: a deal whose service-line field is absent is worked on for the one
\* service line "Risk Assessment", and no unit of work of the Proposal or SOW
\* flow is left because no template was to be had for its service line.
C25_ServiceLineDefaultSafe ==
  /\ (fl.doc \in {"proposal", "sow"} /\ pc = "folder"
        /\ deal[fl.ent].service_line = RawNone) => fl.lines = <<SL_Risk>>
  /\ fl.out # "notemplate"

\* C26: whatever the service-line field holds, the sequence of service
\* lines that the flows work through names no service line twice.
C26_ServiceLinesDistinct ==
  (pc = "res" /\ fl.fn = "ServiceLines") =>
    \A i, j \in DOMAIN fl.res : i # j => fl.res[i] # fl.res[j]

\* C27: a flow never fails to find the folder of a company for which the
\* creation step has found or made a folder in this execution.
C27_CreatedFolderIsFound ==
  (pc = "end" /\ fl.out = "nofolder")
    => company[fl.co].name \notin DOMAIN client_folders

\* the characters of s that are in the set, in their order
Only(s, set) == SelectSeq(s, LAMBDA c : c \in set)

\* C28: the sanitized name holds none of the illegal characters, keeps the
\* letters of the name in their order, has no blank at either end and no two
\* blanks in a row, and has lost at most one period, the trailing one.
C28_SanitizeExact ==
  (pc = "res" /\ fl.fn = "sanitize_folder_name") =>
    /\ Only(fl.res, IllegalChars) = <<>>
    /\ Only(fl.res, {"A", "b"}) = Only(fl.arg, {"A", "b"})
    /\ fl.res # <<>> => fl.res[1] # " " /\ fl.res[Len(fl.res)] # " "
    /\ \A i \in 1..(Len(fl.res) - 1) : ~(fl.res[i] = " " /\ fl.res[i + 1] = " ")
    /\ Len(Only(fl.res, {"."})) >= Len(Only(fl.arg, {"."})) - 1

\* a piece of text occurs in a text
Occurs(sub, s) ==
  \E i \in 1..(Len(s) - Len(sub) + 1) : SubSeq(s, i, i + Len(sub) - 1) = sub

\* the {token}s a paragraph can hold, and the keys of a field map
Tokens == {<<"{", "date", "}">>, <<"{", "legal_entity_name", "}">>}
KeysOf(replacements) == {replacements[i].key : i \in DOMAIN replacements}

\* C29: rendering a paragraph that has been rendered changes no run of it,
\* and a {token} of the paragraph that is no key of the field map is in the
\* rendered text.
C29_RenderIdempotentConservative ==
  /\ (pc = "again" /\ fl.fn = "replace_placeholder") => fl.res = fl.arg.first
  /\ (pc = "res" /\ fl.fn = "replace_placeholder") =>
       \A t \in Tokens \ KeysOf(Replacements(fl.arg.flow)) :
         Occurs(t, Join(fl.arg.runs)) => Occurs(t, Join(fl.res))

\* C30: once a flow has patched a status to the done tag, the filled
\* document lies under its name in the target folder.
C30_DoneOnlyAfterUpload ==
  fl.patched # {} => FilledAt(fl.dir, fl.name)

LinePrefix(doc, company_name, line) ==
  IF doc = "proposal" THEN ProposalPrefix(company_name, line)
  ELSE <<"AMZ Risk - ">> \o company_name \o <<" - SOW - ">> \o line

\* C32: when the Proposal or the SOW flow has worked through a deal and has
\* patched the deal's status to the done tag, the target folder holds a
\* document for every service line of the deal.
C32_DoneMeansEveryLine ==
  (/\ fl.doc \in {"proposal", "sow"} /\ pc = "end" /\ fl.lines = <<>>
   /\ fl.co # "" /\ fl.dir # NoFolder
   /\ deal[fl.ent][StatusField(fl.doc)] \in DoneTags
   /\ \E k \in DOMAIN made : k[1] = fl.doc /\ k[2] = fl.ent /\ made[k].rounds > 0)
    => LET lines == ServiceLines(deal[fl.ent].service_line)
       IN \A i \in DOMAIN lines :
            \E n \in Children(fl.dir) :
              StartsWith(n, LinePrefix(fl.doc, company[fl.co].name, lines[i]))

\* C33: get_or_create_subfolder asks for a copy of the template folder only
\* when the subfolder is not there and no copy of it that the storage has
\* accepted is still to become visible: over all calls for a parent and a
\* name there is one folder-copy request at most.
C33_SubfolderCopiedOnce ==
  [][(pc = "subfolder" /\ fl.doc # "sow" /\ pc' = "sub_relist")
       => /\ fl.dir \notin folders
          /\ [dir |-> fl.dir, name |-> <<>>] \notin pending]_vars

\* the number of places of a text at which a piece of text begins
Occurrences(sub, s) ==
  Cardinality({i \in 1..(Len(s) - Len(sub) + 1) : SubSeq(s, i, i + Len(sub) - 1) = sub})

\* by how much a text gets shorter when the keys it holds become their values
RECURSIVE Shrink(_, _)
Shrink(text, replacements) ==
  IF replacements = <<>> THEN 0
  ELSE Occurrences(Head(replacements).key, text)
         * (Len(Head(replacements).key) - Len(OrEmpty(Head(replacements).val)))
       + Shrink(text, Tail(replacements))

\* C34: after replace_placeholder the paragraph has the runs it had, all but
\* the first are empty, and the first holds the text of all runs joined with
\* every key that occurs in it, across runs too, replaced by its value: each
\* value is there as often as its key was, a key whose value is None has
\* left nothing behind, and nothing else was added or lost.
C34_RenderJoinsAndSubstitutes ==
  (pc = "res" /\ fl.fn = "replace_placeholder") =>
    LET text == Join(fl.arg.runs)
        out == Join(fl.res)
        map == Replacements(fl.arg.flow)
    IN /\ Len(fl.res) = Len(fl.arg.runs)
       /\ \A i \in DOMAIN fl.res : i > 1 => fl.res[i] = <<>>
       /\ \A i \in DOMAIN map :
            map[i].val # None =>
              Occurrences(map[i].val, out) = Occurrences(map[i].key, text)
       /\ \A i \in DOMAIN out : out[i] # None[1]
       /\ Len(out) = Len(text) - Shrink(text, map)

\* C34 witness: "{address" and "}date" in two runs, the address being null,
\* have become "date" in the first run and nothing in the second
C34_Witness ==
  /\ pc = "res" /\ fl.fn = "replace_placeholder" /\ fl.arg.flow = "nda"
  /\ fl.arg.runs = << <<"{", "address">>, <<"}", "date">> >>
  /\ fl.res = << <<"date">>, <<>> >>

\* C35: a sanitized name is left as it is by sanitizing it again, and it
\* holds no illegal character, no two whitespace characters in a row, no
\* whitespace at either end and no period at its end.
C35_SanitizeIdempotentCanonical ==
  (fl.fn = "sanitize_folder_name" /\ pc \in {"res", "again"}) =>
    /\ pc = "again" => fl.res = fl.arg
    /\ \A i \in DOMAIN fl.res : fl.res[i] \notin IllegalChars
    /\ \A i \in 1..(Len(fl.res) - 1) :
         ~(fl.res[i] \in Whitespace /\ fl.res[i + 1] \in Whitespace)
    /\ fl.res # <<>> =>
         /\ fl.res[1] \notin Whitespace
         /\ fl.res[Len(fl.res)] \notin Whitespace
         /\ fl.res[Len(fl.res)] # "."

\* the status that gates a document of the entity asks for it
Asks(doc, ent) ==
  IF doc \in {"nda", "msa"}
  THEN \/ Norm(company[ent][StatusField(doc)]) = S_generate
       \/ contact[ent].found /\ Norm(contact[ent][StatusField(doc)]) = S_generate
  ELSE Norm(deal[ent][StatusField(doc)]) = S_generate

\* C36: a step of a flow invoked for an entity whose gating status does not
\* ask for the document changes neither the folders and files of the storage
\* nor the CRM, and sends no mail.
C36_SkipChangesNothing ==
  [][(/\ fl.doc \in Docs /\ pc \notin {"idle", "end", "halt"}
      /\ (pc' # pc \/ fl' # fl)
      /\ NoPatchYet(fl.doc, fl.ent)
      /\ ~Asks(fl.doc, fl.ent))
       => /\ UNCHANGED <<crm, storage>>
          /\ fl'.mails = fl.mails]_vars

\* C37: a flow that has asked the storage for its copy reaches the end of its
\* invocation, whatever the storage answers from there on, and an execution
\* of the script that has its token comes to a stop.
C37_EveryInvocationEnds ==
  /\ (pc = "copy") ~> (pc = "end")
  /\ (stage = "fetch") ~> (stage \in {"done", "crashed"})

====
